---- MODULE Spec2Model ----
(***************************************************************************)
(* Model of backend/pdf-service/pdf_processor_service.py: the chapter      *)
(* mapper get_chapter_map and the request handler process_pdf.             *)
(*                                                                         *)
(* Text is a sequence of one-character strings, so that strip, startswith, *)
(* str, join and replace are computed character by character.              *)
(***************************************************************************)
EXTENDS Integers, Sequences, FiniteSets, TLC

VARIABLES
  pc,                   \* position of process_pdf
  toc,                  \* doc.get_toc(): sequence of <<level, title, page>>
  pages,                \* the document's page texts; pages[p+1] is doc[p].get_text()
  handle,               \* the fitz document handle: "none", "open", "closed"
  chapter_map,          \* local chapter_map of process_pdf
  layer1_full_toc_doc,  \* local layer1_full_toc_doc
  layer1_entry_docs,    \* local layer1_entry_docs
  layer3_chunks,        \* local layer3_chunks
  ci,                   \* position of `for chapter in chapter_map` (1-based)
  page_num,             \* loop variable of `for page_num in range(...)`
  end_page_index,       \* local end_page_index
  chapter_text,         \* local chapter_text
  reads,                \* history: <<chapter position, page index>> of every doc[page_num] call
  splits,               \* history: [text, out] of every text_splitter.split_text call
  exc,                  \* the exception in flight / caught: "none" or its origin
  response              \* what process_pdf returned

vars == <<pc, toc, pages, handle, chapter_map, layer1_full_toc_doc,
          layer1_entry_docs, layer3_chunks, ci, page_num, end_page_index,
          chapter_text, reads, splits, exc, response>>

----------------------------------------------------------------------------
(* Bounds of the explored inputs *)

MaxOutline == 3
MaxPageCount == 3
MaxDocOutline == 2
MaxDocPages == 3
MaxOverlap == 1

----------------------------------------------------------------------------
(* Characters and text *)

NUL == "\\u0000"
LF == "\n"
Whitespace == {" ", "\t", "\n", "\r", "\f"}

Digits == <<"0", "1", "2", "3", "4", "5", "6", "7", "8", "9">>

RECURSIVE str(_)
str(n) ==
  IF n < 0 THEN <<"-">> \o str(0 - n)
  ELSE IF n < 10 THEN <<Digits[n + 1]>>
  ELSE str(n \div 10) \o <<Digits[(n % 10) + 1]>>

RECURSIVE lstrip(_)
lstrip(s) ==
  IF s # <<>> /\ Head(s) \in Whitespace THEN lstrip(Tail(s)) ELSE s

RECURSIVE rstrip(_)
rstrip(s) ==
  IF s # <<>> /\ s[Len(s)] \in Whitespace THEN rstrip(SubSeq(s, 1, Len(s) - 1)) ELSE s

strip(s) == rstrip(lstrip(s))

startswith(s, prefix) ==
  /\ Len(s) >= Len(prefix)
  /\ SubSeq(s, 1, Len(prefix)) = prefix

RECURSIVE join(_, _)
join(sep, parts) ==
  IF parts = <<>> THEN <<>>
  ELSE IF Len(parts) = 1 THEN parts[1]
  ELSE parts[1] \o sep \o join(sep, Tail(parts))

RECURSIVE replace_nul(_)
replace_nul(s) ==
  IF s = <<>> THEN <<>>
  ELSE IF Head(s) = NUL THEN replace_nul(Tail(s))
  ELSE <<Head(s)>> \o replace_nul(Tail(s))

Max(a, b) == IF a >= b THEN a ELSE b
Min(a, b) == IF a <= b THEN a ELSE b

----------------------------------------------------------------------------
(* Literals of the source *)

S_Chapter == <<"C", "h", "a", "p", "t", "e", "r">>
S_Appendix == <<"A", "p", "p", "e", "n", "d", "i", "x">>
S_FullDocument == <<"F", "u", "l", "l", " ", "D", "o", "c", "u", "m", "e", "n", "t">>
S_ChapterSp == S_Chapter \o <<" ">>
S_ColonSp == <<":", " ">>
S_Page == <<" ", "(", "P", "a", "g", "e", " ">>
S_StartsOnPage == <<" ", "(", "S", "t", "a", "r", "t", "s", " ", "o", "n", " ", "P", "a", "g", "e", " ">>
S_Close == <<")">>

----------------------------------------------------------------------------
(* get_chapter_map *)

page_count == Len(pages)

(* faulty variant of IsValidChapter: the level test is dropped *)
IsValidChapterNoLevel(level, title) ==
  LET normalized_title == strip(title)
  IN  startswith(normalized_title, S_Chapter) \/ startswith(normalized_title, S_Appendix)

IsValidChapter(level, title) ==
  LET normalized_title == strip(title)
  IN  /\ level = 1
      /\ (startswith(normalized_title, S_Chapter) \/ startswith(normalized_title, S_Appendix))

RECURSIVE IndicesFrom(_, _)
IndicesFrom(t, i) ==
  IF i > Len(t) THEN <<>>
  ELSE (IF IsValidChapter(t[i][1], t[i][2]) THEN <<i>> ELSE <<>>) \o IndicesFrom(t, i + 1)

valid_chapter_indices(t) == IndicesFrom(t, 1)

FallbackMap(n) ==
  << [chapter_number |-> <<"1">>,
      title |-> S_FullDocument,
      start_page |-> 1,
      end_page |-> n] >>

(* faulty variants of EndPage: the bookmark right after this one instead   *)
(* of the next valid one; the next start page itself; two pages before it  *)
EndPageNextEntry(t, v, i, n) ==
  IF i < Len(v) THEN t[v[i] + 1][3] - 1 ELSE n

EndPageNoMinusOne(t, v, i, n) ==
  IF i < Len(v) THEN t[v[i + 1]][3] ELSE n

EndPageMinusTwo(t, v, i, n) ==
  IF i < Len(v) THEN t[v[i + 1]][3] - 2 ELSE n

EndPage(t, v, i, n) ==
  IF i < Len(v) THEN t[v[i + 1]][3] - 1 ELSE n

get_chapter_map(t, n) ==
  IF t = <<>> THEN FallbackMap(n)
  ELSE LET v == valid_chapter_indices(t)
       IN  IF v = <<>> THEN FallbackMap(n)
           ELSE [i \in 1..Len(v) |->
                   [chapter_number |-> str(i),
                    title |-> strip(t[v[i]][2]),
                    start_page |-> t[v[i]][3],
                    end_page |-> EndPage(t, v, i, n)]]

----------------------------------------------------------------------------
(* process_pdf: the layers *)

FullTocLine(c) ==
  S_ChapterSp \o c.chapter_number \o S_ColonSp \o c.title
    \o S_Page \o str(c.start_page) \o S_Close

(* faulty variant of TocText: only the first chapter is listed *)
TocTextFirstOnly(cm) == FullTocLine(cm[1])

TocText(cm) == join(<<LF>>, [i \in 1..Len(cm) |-> FullTocLine(cm[i])])

FullTocDoc(cm) ==
  [content |-> TocText(cm), metadata |-> [doc_type |-> "toc_full"]]

EntryDoc(c) ==
  [content |-> S_ChapterSp \o c.chapter_number \o S_ColonSp \o c.title
                 \o S_StartsOnPage \o str(c.start_page) \o S_Close,
   metadata |-> [doc_type |-> "toc_entry", chapter |-> c.chapter_number]]

EntryDocs(cm) == [i \in 1..Len(cm) |-> EntryDoc(cm[i])]

(* faulty variant of StartPageIndex: the 1-based page used as an index *)
StartPageIndexOffByOne(chapter) == Max(0, chapter.start_page)

StartPageIndex(chapter) == Max(0, chapter.start_page - 1)

(* faulty variant of EndPageIndex: no clamp to the page count *)
EndPageIndexUnclamped(chapter, n) == chapter.end_page

EndPageIndex(chapter, n) == Min(n, chapter.end_page)

(* faulty variant of Sanitize: the content is passed through *)
SanitizeIdentity(chunk_content) == chunk_content

Sanitize(chunk_content) == replace_nul(chunk_content)

ChunkDoc(chunk_content, chapter) ==
  [content |-> Sanitize(chunk_content),
   metadata |-> [doc_type |-> "chunk",
                 chapter |-> chapter.chapter_number,
                 chapter_title |-> chapter.title]]

ChunkDocs(chunks, chapter) == [k \in 1..Len(chunks) |-> ChunkDoc(chunks[k], chapter)]

(* text_splitter.split_text: a fixed-size window slid over the text, each   *)
(* chunk re-including the tail of the previous one. The text of the model   *)
(* is far shorter than the configured 512/50, so the window size and the    *)
(* overlap, in characters of the model, are the splitter's own choice.      *)
WindowChunks(text, size, overlap) ==
  LET L == Len(text)
      step == size - overlap
      n == 1 + ((L - size) + (step - 1)) \div step
  IN  [i \in 1..n |-> SubSeq(text, 1 + (i - 1) * step, Min(L, (i - 1) * step + size))]

split_text(text) ==
  IF text = <<>> THEN {<<>>}
  ELSE UNION {{WindowChunks(text, size, overlap) :
                  overlap \in 0..Min(MaxOverlap, size - 1)} :
                size \in 1..Len(text)}

SuccessBody(full, entries, chunks) ==
  [layer1_full_toc_doc |-> full,
   layer1_entry_docs |-> entries,
   layer3_chunks |-> chunks]

(* faulty variant of ErrorBody: the chunks built so far are returned too *)
ErrorBodyWithPartialLayers(e) ==
  [error |-> <<"Failed to process PDF: ", e>>, layer3_chunks |-> layer3_chunks]

ErrorBody(e) == [error |-> <<"Failed to process PDF: ", e>>]

----------------------------------------------------------------------------
(* Input documents *)

T_Chapter1 == <<"C", "h", "a", "p", "t", "e", "r", " ", "1">>
T_AppendixWs == <<" ", "\t", "A", "p", "p", "e", "n", "d", "i", "x", " ", "A", " ", "\n">>
T_Copyright == <<"C", "o", "p", "y", "r", "i", "g", "h", "t">>
T_Section == <<"C", "h", "a", "p", "t", "e", "r", " ", "2">>
T_Lowercase == <<"c", "h", "a", "p", "t", "e", "r", " ", "3">>

(* <<level, title>> of the bookmarks tried by the chapter-map specification *)
EntryKinds ==
  { <<1, T_Chapter1>>, <<1, T_AppendixWs>>, <<1, T_Copyright>>,
    <<2, T_Section>>, <<1, T_Lowercase>> }

(* <<level, title>> of the bookmarks tried by the request specification *)
DocEntryKinds ==
  { <<1, T_Chapter1>>, <<1, T_AppendixWs>>, <<1, T_Copyright>> }

Outlines(kinds, maxLen, maxPage) ==
  LET E == {<<k[1], k[2], p>> : k \in kinds, p \in 1..maxPage}
  IN  UNION {[1..n -> E] : n \in 0..maxLen}

(* the text printed on page p (1-based): a letter no title or label uses *)
Glyphs == <<"b", "f", "j", "k", "q", "v", "w", "z">>
PageGlyph(p) == <<Glyphs[p]>>

(* page texts of a document of n pages: image-only pages, plain text, and   *)
(* a mix of empty pages and pages whose text holds a raw NUL byte           *)
DocPages(n) ==
  { [p \in 1..n |-> <<>>],
    [p \in 1..n |-> PageGlyph(p)],
    [p \in 1..n |-> IF p % 2 = 1 THEN <<>> ELSE <<NUL>> \o PageGlyph(p)] }

BlankPages(n) == [p \in 1..n |-> <<>>]

NoDoc == [content |-> <<>>, metadata |-> [doc_type |-> "none"]]
NoResponse == [status |-> 0, body |-> <<>>]

Locals ==
  /\ chapter_map = <<>>
  /\ layer1_full_toc_doc = NoDoc
  /\ layer1_entry_docs = <<>>
  /\ layer3_chunks = <<>>
  /\ ci = 0
  /\ page_num = 0
  /\ end_page_index = 0
  /\ chapter_text = <<>>
  /\ reads = <<>>
  /\ splits = <<>>
  /\ exc = "none"
  /\ response = NoResponse

(* a request arrives with the bytes of some document *)
Init ==
  /\ pc = "open"
  /\ handle = "none"
  /\ \E m \in 0..MaxDocPages : pages \in DocPages(MaxDocPages - m)
  /\ toc \in Outlines(DocEntryKinds, MaxDocOutline, MaxDocPages)
  /\ Locals

(* get_chapter_map is about to be called on an opened document *)
InitMap ==
  /\ pc = "map"
  /\ handle = "open"
  /\ \E m \in 0..MaxPageCount : pages = BlankPages(MaxPageCount - m)
  /\ toc \in Outlines(EntryKinds, MaxOutline, MaxPageCount)
  /\ Locals

----------------------------------------------------------------------------
(* process_pdf, step by step *)

Raise(e) ==
  /\ exc' = e
  /\ pc' = "except"

Open ==
  /\ pc = "open"
  /\ handle' = "open"
  /\ pc' = "map"
  /\ UNCHANGED <<toc, pages, chapter_map, layer1_full_toc_doc, layer1_entry_docs,
                 layer3_chunks, ci, page_num, end_page_index, chapter_text,
                 reads, splits, exc, response>>

OpenRaises ==
  /\ pc = "open"
  /\ Raise("open")
  /\ UNCHANGED <<toc, pages, handle, chapter_map, layer1_full_toc_doc,
                 layer1_entry_docs, layer3_chunks, ci, page_num, end_page_index,
                 chapter_text, reads, splits, response>>

GetChapterMap ==
  /\ pc = "map"
  /\ chapter_map' = get_chapter_map(toc, page_count)
  /\ pc' = "toc"
  /\ UNCHANGED <<toc, pages, handle, layer1_full_toc_doc, layer1_entry_docs,
                 layer3_chunks, ci, page_num, end_page_index, chapter_text,
                 reads, splits, exc, response>>

GetTocRaises ==
  /\ pc = "map"
  /\ Raise("get_toc")
  /\ UNCHANGED <<toc, pages, handle, chapter_map, layer1_full_toc_doc,
                 layer1_entry_docs, layer3_chunks, ci, page_num, end_page_index,
                 chapter_text, reads, splits, response>>

BuildFullToc ==
  /\ pc = "toc"
  /\ layer1_full_toc_doc' = FullTocDoc(chapter_map)
  /\ pc' = "entries"
  /\ UNCHANGED <<toc, pages, handle, chapter_map, layer1_entry_docs,
                 layer3_chunks, ci, page_num, end_page_index, chapter_text,
                 reads, splits, exc, response>>

BuildEntryDocs ==
  /\ pc = "entries"
  /\ layer1_entry_docs' = EntryDocs(chapter_map)
  /\ ci' = 1
  /\ pc' = "chapter"
  /\ UNCHANGED <<toc, pages, handle, chapter_map, layer1_full_toc_doc,
                 layer3_chunks, page_num, end_page_index, chapter_text,
                 reads, splits, exc, response>>

ChapterBegin ==
  /\ pc = "chapter"
  /\ ci <= Len(chapter_map)
  /\ chapter_text' = <<>>
  /\ page_num' = StartPageIndex(chapter_map[ci])
  /\ end_page_index' = EndPageIndex(chapter_map[ci], page_count)
  /\ pc' = "page"
  /\ UNCHANGED <<toc, pages, handle, chapter_map, layer1_full_toc_doc,
                 layer1_entry_docs, layer3_chunks, ci, reads, splits, exc, response>>

ReadPage ==
  /\ pc = "page"
  /\ page_num < end_page_index
  /\ page_num < page_count
  /\ reads' = Append(reads, <<ci, page_num>>)
  /\ chapter_text' = chapter_text \o pages[page_num + 1]
  /\ page_num' = page_num + 1
  /\ UNCHANGED <<pc, toc, pages, handle, chapter_map, layer1_full_toc_doc,
                 layer1_entry_docs, layer3_chunks, ci, end_page_index,
                 splits, exc, response>>

(* doc[page_num] raises for an index past the last page; get_text may raise *)
ReadPageRaises ==
  /\ pc = "page"
  /\ page_num < end_page_index
  /\ reads' = Append(reads, <<ci, page_num>>)
  /\ Raise(IF page_num < page_count THEN "get_text" ELSE "index")
  /\ UNCHANGED <<toc, pages, handle, chapter_map, layer1_full_toc_doc,
                 layer1_entry_docs, layer3_chunks, ci, page_num, end_page_index,
                 chapter_text, splits, response>>

SplitAndAppend ==
  /\ pc = "page"
  /\ page_num >= end_page_index
  /\ \E chunks \in split_text(chapter_text) :
       /\ splits' = Append(splits, [text |-> chapter_text, out |-> chunks])
       /\ layer3_chunks' = layer3_chunks \o ChunkDocs(chunks, chapter_map[ci])
  /\ ci' = ci + 1
  /\ pc' = "chapter"
  /\ UNCHANGED <<toc, pages, handle, chapter_map, layer1_full_toc_doc,
                 layer1_entry_docs, page_num, end_page_index, chapter_text,
                 reads, exc, response>>

SplitRaises ==
  /\ pc = "page"
  /\ page_num >= end_page_index
  /\ Raise("split")
  /\ UNCHANGED <<toc, pages, handle, chapter_map, layer1_full_toc_doc,
                 layer1_entry_docs, layer3_chunks, ci, page_num, end_page_index,
                 chapter_text, reads, splits, response>>

Close ==
  /\ pc = "chapter"
  /\ ci > Len(chapter_map)
  /\ handle' = "closed"
  /\ pc' = "return"
  /\ UNCHANGED <<toc, pages, chapter_map, layer1_full_toc_doc, layer1_entry_docs,
                 layer3_chunks, ci, page_num, end_page_index, chapter_text,
                 reads, splits, exc, response>>

ReturnLayers ==
  /\ pc = "return"
  /\ response' = [status |-> 200,
                  body |-> SuccessBody(layer1_full_toc_doc, layer1_entry_docs, layer3_chunks)]
  /\ pc' = "done"
  /\ UNCHANGED <<toc, pages, handle, chapter_map, layer1_full_toc_doc,
                 layer1_entry_docs, layer3_chunks, ci, page_num, end_page_index,
                 chapter_text, reads, splits, exc>>

Except ==
  /\ pc = "except"
  /\ response' = [status |-> 500, body |-> ErrorBody(exc)]
  /\ pc' = "done"
  /\ UNCHANGED <<toc, pages, handle, chapter_map, layer1_full_toc_doc,
                 layer1_entry_docs, layer3_chunks, ci, page_num, end_page_index,
                 chapter_text, reads, splits, exc>>

Next ==
  \/ Open
  \/ OpenRaises
  \/ GetChapterMap
  \/ GetTocRaises
  \/ BuildFullToc
  \/ BuildEntryDocs
  \/ ChapterBegin
  \/ ReadPage
  \/ ReadPageRaises
  \/ SplitAndAppend
  \/ SplitRaises
  \/ Close
  \/ ReturnLayers
  \/ Except

Spec == Init /\ [][Next]_vars

NextMap == GetChapterMap

SpecMap == InitMap /\ [][NextMap]_vars

----------------------------------------------------------------------------
(* What the properties are stated against: the qualifying bookmarks of the  *)
(* input sets, read off the titles by hand rather than computed by the      *)
(* model's strip and startswith.                                            *)

T_AppendixA == <<"A", "p", "p", "e", "n", "d", "i", "x", " ", "A">>

Qualifies(e) == e[1] = 1 /\ e[2] \in {T_Chapter1, T_AppendixWs}

Trimmed(title) == IF title = T_AppendixWs THEN T_AppendixA ELSE title

Qual == SelectSeq(toc, Qualifies)

Numerals == <<"1", "2", "3", "4", "5", "6", "7", "8", "9">>

Mapped == pc = "toc"

StrictlyIncreasingPages ==
  \A i \in 1..(Len(Qual) - 1) : Qual[i][3] < Qual[i + 1][3]

NonDecreasingPages ==
  \A i \in 1..(Len(Qual) - 1) : Qual[i][3] <= Qual[i + 1][3]

PageRange(c) == c.start_page..c.end_page

Adjacent ==
  \A i \in 1..(Len(chapter_map) - 1) :
    chapter_map[i + 1].start_page = chapter_map[i].end_page + 1

Disjoint ==
  \A i, j \in 1..Len(chapter_map) :
    i # j => PageRange(chapter_map[i]) \cap PageRange(chapter_map[j]) = {}

(* C2: with k >= 1 qualifying bookmarks (level 1, trimmed title starting    *)
(* with "Chapter" or "Appendix"), get_chapter_map returns exactly k         *)
(* chapters in outline order, numbered "1".."k"; chapter i has the page and *)
(* trimmed title of the i-th qualifying bookmark, ends one page before the  *)
(* next chapter starts, and the last chapter ends at the page count; the    *)
(* other bookmarks have no effect.                                          *)
C2_ChaptersOfQualifyingEntries ==
  (Mapped /\ Len(Qual) >= 1) =>
    /\ Len(chapter_map) = Len(Qual)
    /\ \A i \in 1..Len(Qual) :
         /\ chapter_map[i].chapter_number = <<Numerals[i]>>
         /\ chapter_map[i].title = Trimmed(Qual[i][2])
         /\ chapter_map[i].start_page = Qual[i][3]
         /\ chapter_map[i].end_page =
              IF i < Len(Qual) THEN Qual[i + 1][3] - 1 ELSE page_count

C2_Witness ==
  /\ Mapped
  /\ Len(toc) = 3
  /\ Qualifies(toc[1]) /\ ~Qualifies(toc[2]) /\ Qualifies(toc[3])
  /\ toc[3][2] = T_AppendixWs
  /\ toc[2][3] # toc[3][3]
  /\ Len(chapter_map) = 2
  /\ chapter_map[1].end_page = toc[3][3] - 1

(* C3: an outline that is empty or has no qualifying bookmark yields the    *)
(* single chapter {"1", "Full Document", 1, page count}; the chapter list   *)
(* is never empty.                                                          *)
C3_FallbackChapter ==
  Mapped =>
    /\ Len(chapter_map) >= 1
    /\ Len(Qual) = 0 =>
         chapter_map = << [chapter_number |-> <<"1">>,
                           title |-> S_FullDocument,
                           start_page |-> 1,
                           end_page |-> page_count] >>

C3_Witness ==
  /\ Mapped
  /\ Len(toc) >= 2
  /\ Len(Qual) = 0
  /\ \E i, j \in 1..Len(toc) : toc[i][1] = 2 /\ toc[j][2] = T_Lowercase
  /\ Len(chapter_map) = 1
  /\ chapter_map[1].title = S_FullDocument

(* C4 as claimed: every chapter record has start_page >= 1 and              *)
(* end_page >= start_page, for bookmarks in any order and any page count.   *)
C4_Original ==
  Mapped =>
    \A i \in 1..Len(chapter_map) :
      /\ chapter_map[i].start_page >= 1
      /\ chapter_map[i].end_page >= chapter_map[i].start_page

(* C4 amended: every chapter record has start_page >= 1; a non-last chapter *)
(* has end_page >= start_page exactly when the next qualifying bookmark is  *)
(* on a later page than its own, and the last chapter (or the fallback      *)
(* chapter) exactly when its start_page is at most the page count.          *)
C4_EndNotBeforeStart ==
  Mapped =>
    \A i \in 1..Len(chapter_map) :
      /\ chapter_map[i].start_page >= 1
      /\ (chapter_map[i].end_page >= chapter_map[i].start_page) <=>
           IF i < Len(Qual) THEN Qual[i][3] < Qual[i + 1][3]
           ELSE IF Len(Qual) = 0 THEN 1 <= page_count
           ELSE Qual[i][3] <= page_count

C4_Witness ==
  /\ Mapped
  /\ Len(Qual) >= 2
  /\ StrictlyIncreasingPages
  /\ Qual[1][3] + 1 = Qual[2][3]
  /\ Qual[Len(Qual)][3] <= page_count
  /\ \A i \in 1..Len(chapter_map) :
       chapter_map[i].end_page >= chapter_map[i].start_page

(* C5 as claimed: for any outline the chapters' page ranges are pairwise    *)
(* disjoint and each begins right after the previous one ends.              *)
C5_Original == Mapped => (Adjacent /\ Disjoint)

(* C5 amended: each chapter's start_page is the previous chapter's end_page *)
(* plus one for any outline; the page ranges are pairwise disjoint whenever *)
(* the qualifying bookmarks' pages never decrease in outline order.         *)
C5_ContiguousDisjointWhenOrdered ==
  Mapped => (Adjacent /\ (NonDecreasingPages => Disjoint))

C5_Witness ==
  /\ Mapped
  /\ Len(chapter_map) >= 3
  /\ NonDecreasingPages
  /\ \A i \in 1..Len(chapter_map) : PageRange(chapter_map[i]) # {}
  /\ Adjacent
  /\ Disjoint

----------------------------------------------------------------------------
(* Properties of process_pdf                                                *)

Range(f) == {f[k] : k \in DOMAIN f}

Returned == pc = "done"
Succeeded == pc = "done" /\ exc = "none"
LayerKeys == {"layer1_full_toc_doc", "layer1_entry_docs", "layer3_chunks"}

(* C1: on every exit path taken after the document was opened, the handle   *)
(* has been closed before the response is returned.                         *)
C1_HandleReleasedOnEveryExit ==
  (Returned /\ handle # "none") => handle = "closed"

(* C6: a request ends in exactly one of two outcomes, a success response    *)
(* with the three layers or a failure response with only an error message;  *)
(* once opening, get_toc, get_text or the splitter has failed, the outcome  *)
(* is the failure response and no layer built so far is returned.           *)
C6_SuccessOrSingleError ==
  /\ Returned =>
       \/ /\ exc = "none"
          /\ response.status = 200
          /\ DOMAIN response.body = LayerKeys
          /\ response.body.layer1_full_toc_doc = layer1_full_toc_doc
          /\ response.body.layer1_entry_docs = layer1_entry_docs
          /\ response.body.layer3_chunks = layer3_chunks
       \/ /\ exc # "none"
          /\ response.status = 500
          /\ DOMAIN response.body = {"error"}
  /\ ~Returned => response = NoResponse

C6_Witness ==
  /\ Returned
  /\ exc = "split"
  /\ ci = 2
  /\ layer3_chunks # <<>>
  /\ response.status = 500
  /\ DOMAIN response.body = {"error"}

RECURSIVE SplitOn(_, _, _)
SplitOn(s, sep, cur) ==
  IF s = <<>> THEN <<cur>>
  ELSE IF Head(s) = sep THEN <<cur>> \o SplitOn(Tail(s), sep, <<>>)
  ELSE SplitOn(Tail(s), sep, Append(cur, Head(s)))

LayersBuilt == ci >= 1

ChunksOf(i) ==
  {k \in 1..Len(layer3_chunks) :
     layer3_chunks[k].metadata.chapter = chapter_map[i].chapter_number}

C8_NoNulInChunks ==
  /\ \A k \in 1..Len(layer3_chunks) : NUL \notin Range(layer3_chunks[k].content)
  /\ Succeeded =>
       \A k \in 1..Len(response.body.layer3_chunks) :
         NUL \notin Range(response.body.layer3_chunks[k].content)

C8_Witness ==
  /\ Succeeded
  /\ \E i \in 1..Len(splits) : \E k \in 1..Len(splits[i].out) :
       /\ NUL \in Range(splits[i].out[k])
       /\ Len(splits[i].out[k]) >= 2
  /\ \E k \in 1..Len(layer3_chunks) : layer3_chunks[k].content # <<>>

ReadsOf(i) ==
  LET mine == SelectSeq(reads, LAMBDA r : r[1] = i)
  IN  [k \in 1..Len(mine) |-> mine[k][2]]

ClampedIndices(c) ==
  LET first == IF c.start_page - 1 > 0 THEN c.start_page - 1 ELSE 0
      last == (IF c.end_page < page_count THEN c.end_page ELSE page_count) - 1
  IN  [k \in 1..(IF last >= first THEN last - first + 1 ELSE 0) |-> first + k - 1]

RECURSIVE TextOfPages(_)
TextOfPages(idx) ==
  IF idx = <<>> THEN <<>> ELSE pages[Head(idx) + 1] \o TextOfPages(Tail(idx))

RECURSIVE TagsUpTo(_)
TagsUpTo(i) ==
  IF i = 0 THEN <<>>
  ELSE TagsUpTo(i - 1) \o
         [k \in 1..Len(splits[i].out) |->
            [doc_type |-> "chunk",
             chapter |-> chapter_map[i].chapter_number,
             chapter_title |-> chapter_map[i].title]]

(* C9: the page-text accessor is only called with 0 <= p < total_pages; the *)
(* pages read for a chapter are exactly max(0, start_page-1) ..             *)
(* min(total_pages, end_page)-1 in ascending order; the splitter is called  *)
(* once per chapter, on that chapter's text only; every chunk carries the   *)
(* number and title of the chapter whose pages produced it, in chapter      *)
(* order.                                                                   *)
C9_ClampedReadsAndProvenance ==
  /\ \A k \in 1..Len(reads) : 0 <= reads[k][2] /\ reads[k][2] < page_count
  /\ \A i \in 1..Len(splits) :
       /\ ReadsOf(i) = ClampedIndices(chapter_map[i])
       /\ splits[i].text = TextOfPages(ClampedIndices(chapter_map[i]))
  /\ [k \in 1..Len(layer3_chunks) |-> layer3_chunks[k].metadata] = TagsUpTo(Len(splits))
  /\ Succeeded => Len(splits) = Len(chapter_map)

C9_Witness ==
  /\ Succeeded
  /\ Len(chapter_map) = 2
  /\ chapter_map[1].start_page > page_count
  /\ ReadsOf(1) = <<>>
  /\ Len(ReadsOf(2)) = 2
  /\ ChunksOf(2) # {}

TimesRead(p) == Cardinality({k \in 1..Len(reads) : reads[k][2] = p})

ReadersOf(p) == {reads[k][1] : k \in {j \in 1..Len(reads) : reads[j][2] = p}}

LayerCharacters ==
  Range(response.body.layer1_full_toc_doc.content)
    \cup UNION {Range(response.body.layer1_entry_docs[k].content) :
                  k \in 1..Len(response.body.layer1_entry_docs)}
    \cup UNION {Range(response.body.layer3_chunks[k].content) :
                  k \in 1..Len(response.body.layer3_chunks)}

QualPagesInDocument == \A i \in 1..Len(Qual) : Qual[i][3] <= page_count

(* C10: over a successful run, with no qualifying bookmark every page index *)
(* is read exactly once; with qualifying bookmarks on strictly increasing   *)
(* pages within the document, every page from the first chapter's           *)
(* start_page on is read exactly once, for exactly one chapter, and every   *)
(* earlier page is never read and shows up in none of the three layers.     *)
C10_PageCoverage ==
  Succeeded =>
    /\ Len(Qual) = 0 => \A p \in 0..(page_count - 1) : TimesRead(p) = 1
    /\ (Len(Qual) >= 1 /\ StrictlyIncreasingPages /\ QualPagesInDocument) =>
         \A p \in 0..(page_count - 1) :
           IF p + 1 >= Qual[1][3]
           THEN /\ TimesRead(p) = 1
                /\ Cardinality(ReadersOf(p)) = 1
                /\ \A i \in ReadersOf(p) :
                     Range(pages[p + 1]) \subseteq Range(splits[i].text)
           ELSE /\ TimesRead(p) = 0
                /\ Range(pages[p + 1]) \cap LayerCharacters = {}

C10_Witness ==
  /\ Succeeded
  /\ Len(Qual) = 2
  /\ StrictlyIncreasingPages
  /\ QualPagesInDocument
  /\ Qual[1][3] = 2
  /\ pages[1] # <<>>
  /\ TimesRead(0) = 0
  /\ TimesRead(1) = 1
  /\ layer3_chunks # <<>>

====
